---- MODULE Spec2Model ----
(***************************************************************************)
(* State-machine model of the DSEI exhibitor scraper.                      *)
(*                                                                         *)
(*   SpecAsync  : one run of AsyncDSEICompanyScraper.scrape_all_companies  *)
(*   SpecRerun  : two such runs, one after the other, on one output file   *)
(*   SpecShapes : one run of either shape, the concurrent one or the       *)
(*                sequential DSEICompanyScraper.scrape_all_companies       *)
(*   SpecRetry  : one call of make_request_with_retry, either shape        *)
(*   SpecMain   : a process started from async_main.py or main.py          *)
(*   SpecEquiv  : a sequential run, then a concurrent run of the same site *)
(*   SpecSink   : calls of save_to_csv on one destination                  *)
(*   SpecListing: get_company_slugs_from_page and has_next_page on one     *)
(*                response                                                 *)
(*   SpecDetail : get_company_details on one response                      *)
(*   SpecSnapshots : a concurrent run over a site of SitePages pages       *)
(*   SpecLoad   : one call of load_existing_companies, either shape        *)
(*   SpecAsyncLive : SpecAsync with every enabled step eventually taken    *)
(*                                                                         *)
(* The target site is a fixed fixture (ListingPage, Name); the outcome of  *)
(* every HTTP attempt, the arrival of the stop signal and the interleaving *)
(* of the detail tasks are nondeterministic.                               *)
(***************************************************************************)
EXTENDS Integers, Sequences, FiniteSets, TLC

(* ------------------------------ bounds -------------------------------- *)

\* largest concurrency limit tried (max_concurrent_tasks ranges over 0..MaxConcurrent)
MaxConcurrent == 2
\* largest page ceiling tried (max_pages is None or in 0..MaxPagesArg)
MaxPagesArg == 2

\* number of save_to_csv calls on one destination
MaxFlushes == 3

\* list items of a listing fragment, and links inside one item
MaxContainers == 3
MaxAnchors == 2
MaxCategories == 2
MaxTag == 2
MaxOverview == 3
MaxRows == 3
SitePages == 7

(* -------------------------- program constants ------------------------- *)

\* mutant: one more attempt than the code makes
max_retries_OneMore == 3 + 1

max_retries == 3
start_page == 1

\* max_pages: Optional[int] = None
NoCeiling == -1
\* mutant: a snapshot every six pages
AutoSaveEvery_Six == 5 + 1

AutoSaveEvery == 5

\* delays['between_pages'] of the default configuration, in seconds
between_pages == 1

(* ------------------------------ strings ------------------------------- *)
\* A string is a sequence of characters over a small alphabet, so that
\* str.lower() and str.strip() are computed and not assumed.

Lower(c) == CASE c = "A" -> "a" [] c = "B" -> "b" [] c = "C" -> "c" [] OTHER -> c

IsSpace(c) == c \in {" ", "\n", "\r"}

\* str.lower()
LowerStr(s) == [i \in 1..Len(s) |-> Lower(s[i])]

RECURSIVE LStrip(_)
LStrip(s) == IF s # <<>> /\ IsSpace(Head(s)) THEN LStrip(Tail(s)) ELSE s

RECURSIVE RStrip(_)
RStrip(s) ==
    IF s # <<>> /\ IsSpace(s[Len(s)]) THEN RStrip(SubSeq(s, 1, Len(s) - 1)) ELSE s

\* str.strip()
Strip(s) == RStrip(LStrip(s))

\* company_name.lower().strip(): the de-duplication key
Normalize(s) == Strip(LowerStr(s))

(* ------------------------------ the site ------------------------------ *)

NoMatch == "-"

Anchor(li, s) == [li |-> li, slug |-> s]

\* The a.js-librarylink-entry anchors of listing page p in document order:
\* li = the anchor is the link of an li.m-exhibitors-list__items__item
\* container, slug = the identifier its href embeds (NoMatch: none).
ShortListingPage(p) ==
    CASE p = 1 -> << Anchor(TRUE, "a"), Anchor(TRUE, "b"), Anchor(TRUE, "a") >>
      [] p = 2 -> << Anchor(TRUE, "b"), Anchor(TRUE, "c"), Anchor(TRUE, "d") >>
      [] p = 3 -> << Anchor(TRUE, "e"), Anchor(TRUE, NoMatch) >>
      [] p = 4 -> << Anchor(TRUE, NoMatch) >>
      [] OTHER -> << >>

\* the identifiers of the long site: page p lists the entity PageSlugs[p],
\* and the first page the entity "a" after it
PageSlugs == << "p1", "p2", "p3", "p4", "p5", "p6", "p7", "p8", "p9", "p10",
               "p11", "p12" >>


\* The title of the detail page of an entity (<<>>: the page has no title).
Name(slug) ==
    CASE slug = "a" -> << "A", "b" >>
      [] slug = "b" -> << "a", "B" >>
      [] slug = "c" -> << "A", "B" >>
      [] slug = "d" -> << "b", "\n", "c" >>
      [] slug \in { PageSlugs[i] : i \in 1..Len(PageSlugs) } -> << slug >>
      [] OTHER -> << >>

(* ------------------------------ state --------------------------------- *)

VARIABLES
    shape,                 \* "async": AsyncDSEICompanyScraper, "sync": DSEICompanyScraper
    pc,                    \* position of scrape_all_companies
    run,                   \* number of the scraper instance (1, 2)
    max_concurrent_tasks,  \* constructor argument N
    max_pages,             \* page ceiling argument (NoCeiling: None)
    should_stop,           \* self.should_stop
    current_page,
    pages_scraped,
    companies_data,        \* self.companies_data ("collected")
    existing_companies,    \* self.existing_companies ("historical")
    processed_slugs,       \* self.processed_slugs ("in_run")
    companies_info,        \* what the last listing call returned (company_slugs)
    semaphore,             \* value of self.semaphore
    to_process,            \* companies_to_process (sync: company_slugs) of the page
    tasks,                 \* the detail tasks of the current batch
    mainFile,              \* data/processed/dsei_companies.csv
    backups,               \* timestamp -> backup file
    clock,                 \* wall clock in seconds (names the backup files)
    raised,                \* an exception left scrape_all_companies
    rq,                    \* one call of make_request_with_retry
    env,                   \* "faulty": requests may fail and exceptions may occur;
                           \* "sound": every request is answered, nothing unexpected
    site,                  \* "short": the site of ShortListingPage; "long":
                           \* SitePages listing pages, of one entity or two
    loaded,                \* << >>, or << what the last load_existing_companies
                           \* call returned >>
    has_next,              \* << >>, or << what the last has_next_page call returned >>
    exit_code,             \* << >> while the process runs, then << status >>
    reference,             \* << >>, or what the sequential run of the same site did
    created,               \* history: slug -> detail tasks created in this run
    fetched,               \* history: <<slug, page>> of every detail GET of this run
    mainFlushes,           \* history: writes of collected to the main file, this run
    stopPage,              \* history: current_page when should_stop was set (0: not set)
    ended                  \* history: what ended the page loop ("": still running)

vars == << shape, pc, run, max_concurrent_tasks, max_pages, should_stop,
           current_page, pages_scraped, companies_data, existing_companies,
           processed_slugs, companies_info, semaphore, to_process, tasks,
           mainFile, backups,
           clock, raised, rq, env, site, has_next, loaded, exit_code, reference, created, fetched, mainFlushes, stopPage, ended >>

\* what no action of a run changes
fixed == << shape, run, max_concurrent_tasks, max_pages, rq, env, site, has_next, loaded, exit_code, reference >>
ledger == << existing_companies, processed_slugs >>
storage == << mainFile, backups, clock >>
history == << created, fetched, mainFlushes, stopPage, ended >>

\* The listing page p of the site the run crawls.
ListingPage(p) ==
    IF site = "long"
    THEN IF p <= SitePages /\ p <= Len(PageSlugs)
         THEN << Anchor(TRUE, PageSlugs[p]) >>
              \o (IF p = 1 THEN << Anchor(TRUE, "a") >> ELSE << >>)
         ELSE << >>
    ELSE ShortListingPage(p)

(* ------------------------------ the Sink ------------------------------ *)

\* A file is [exists, rows]; a row is the header row or one record.
NoFile == [exists |-> FALSE, rows |-> << >>]

HeaderRow == [hdr |-> TRUE, name |-> << >>, slug |-> "", page |-> 0]

\* writer.writerow(company)
RowOf(company) ==
    [hdr |-> FALSE, name |-> company.company_name, slug |-> company.slug_name,
     page |-> company.url[2]]

RowsOf(data) == [i \in 1..Len(data) |-> RowOf(data[i])]

\* mutant: the size of the file is not looked at
FileExists_AnySize(file) == file.exists

\* file_path.exists() and file_path.stat().st_size > 0
FileExists(file) == file.exists /\ Len(file.rows) > 0

\* mutant: the file is always opened for writing
OpenMode_AlwaysWrite(file) == "w"

\* 'a' if file_exists else 'w'
OpenMode(file) == IF FileExists(file) THEN "a" ELSE "w"

\* mutant: the file is opened also when there are no records
SaveToCsv_NoEmptyCheck(file, data) ==
    LET kept == IF OpenMode(file) = "a" THEN file.rows ELSE << >>
        head == IF FileExists(file) THEN << >> ELSE << HeaderRow >>
    IN  [exists |-> TRUE, rows |-> kept \o head \o RowsOf(data)]

\* save_to_csv: the content of file_path after the call.  Mode 'w' truncates,
\* mode 'a' keeps what is there; the header is written iff not file_exists.
SaveToCsv(file, data) ==
    IF data = << >>
    THEN file
    ELSE LET kept == IF OpenMode(file) = "a" THEN file.rows ELSE << >>
             head == IF FileExists(file) THEN << >> ELSE << HeaderRow >>
         IN  [exists |-> TRUE, rows |-> kept \o head \o RowsOf(data)]

RECURSIVE DropNewlines(_)
DropNewlines(s) ==
    IF s = << >> THEN << >>
    ELSE IF Head(s) = "\n" THEN DropNewlines(Tail(s))
    ELSE << Head(s) >> \o DropNewlines(Tail(s))

\* The company_name column as csv.DictReader(content.splitlines()) returns it:
\* splitlines() removes the line breaks, also those inside a quoted field.
ReadNameAsync(row) == DropNewlines(row.name)

\* load_existing_companies: the names added to existing_companies.  The first
\* row of the file is consumed as the field names.
LoadExisting(file) ==
    IF ~file.exists \/ file.rows = << >>
    THEN {}
    ELSE { LowerStr(Strip(ReadNameAsync(file.rows[i]))) :
             i \in { j \in 2..Len(file.rows) :
                       Strip(ReadNameAsync(file.rows[j])) # << >> } }

\* is_company_already_scraped
IsAlreadyScraped(name, existing) == Normalize(name) \in existing

\* mutant: the name is added as it was captured
AddToExisting_Raw(name, existing) ==
    IF name # << >> /\ Strip(name) # << >>
    THEN existing \cup { name }
    ELSE existing

\* mutant: every name is added, also the empty one
AddToExisting_AnyName(name, existing) == existing \cup { Normalize(name) }

\* add_company_to_existing
AddToExisting(name, existing) ==
    IF name # << >> /\ Strip(name) # << >>
    THEN existing \cup { Normalize(name) }
    ELSE existing

(* ----------------------------- Extractor ------------------------------ *)

RECURSIVE Dedup(_, _)
Dedup(s, seen) ==
    IF s = << >> THEN << >>
    ELSE IF Head(s) \in seen THEN Dedup(Tail(s), seen)
    ELSE << Head(s) >> \o Dedup(Tail(s), seen \cup { Head(s) })

\* unique_companies: first-seen order, duplicates removed
UniqueSlugs(s) == Dedup(s, {})

\* get_company_slugs_from_page (concurrent shape), for a response that
\* arrived: the slugs of the containers' links whose href matches.
SlugsOfPage(p) ==
    UniqueSlugs(
        LET page == ListingPage(p)
            pick == SelectSeq(page, LAMBDA a : a.li /\ a.slug # NoMatch)
        IN  [i \in 1..Len(pick) |-> pick[i].slug])

\* has_next_page, for a response that arrived: any a.js-librarylink-entry
HasLinks(p) == Len(ListingPage(p)) > 0

\* company_data of get_company_details
CompanyData(slug, p) ==
    [company_name |-> Name(slug), slug_name |-> slug, url |-> << slug, p >>]

NoData == [company_name |-> << >>, slug_name |-> "", url |-> << "", 0 >>]

(* ------------------- AsyncDSEICompanyScraper: a run -------------------- *)

Task(slug) == [slug |-> slug, phase |-> "created", attempt |-> 0, data |-> NoData]

\* the tasks inside the semaphore-guarded section of get_company_details
InFlight == { t \in 1..Len(tasks) : tasks[t].phase = "get" }

Resolved(t) == tasks[t].phase \in { "none", "exc", "dict" }

\* no call of make_request_with_retry is followed step by step
NoRequest == [pc |-> "idle", attempt |-> 0, gets |-> 0, outcomes |-> << >>,
              waits |-> << >>, result |-> "-"]

\* how a request, or a step outside every try block, can end
Responses == IF env = "sound" THEN { TRUE } ELSE BOOLEAN

\* the process has just started
InitProcess ==
    /\ env = "faulty"
    /\ site = "short"
    /\ has_next = << >>
    /\ loaded = << >>
    /\ exit_code = << >>
    /\ reference = << >>

\* __init__: the state of a fresh scraper instance
InitScraper ==
    /\ max_concurrent_tasks \in 0..MaxConcurrent
    /\ max_pages \in { NoCeiling } \cup 0..MaxPagesArg
    /\ should_stop = FALSE
    /\ current_page = start_page
    /\ pages_scraped = 0
    /\ companies_data = << >>
    /\ existing_companies = {}
    /\ processed_slugs = {}
    /\ semaphore = max_concurrent_tasks
    /\ companies_info = << >>
    /\ to_process = << >>
    /\ tasks = << >>
    /\ raised = FALSE
    /\ created = [s \in {} |-> 0]
    /\ fetched = {}
    /\ mainFlushes = 0
    /\ stopPage = 0
    /\ ended = ""

\* The output file left by earlier runs: none, or one with one record.
OldFiles ==
    { NoFile,
      [exists |-> TRUE,
       rows |-> << HeaderRow,
                   [hdr |-> FALSE, name |-> << "A", "B" >>, slug |-> "z", page |-> 1] >>] }

InitStorage ==
    /\ mainFile \in OldFiles
    /\ backups = [t \in {} |-> NoFile]
    /\ clock = 0

InitAsyncRun ==
    /\ shape = "async"
    /\ pc = "start"
    /\ run = 1
    /\ rq = NoRequest
    /\ InitScraper
    /\ InitStorage

InitAsync == InitAsyncRun /\ InitProcess

\* signal_handler (SIGINT, SIGTERM): runs between any two steps of the run
SignalHandler ==
    /\ shape = "async"
    /\ pc \notin { "done", "exited" }
    /\ ~should_stop
    /\ should_stop' = TRUE
    /\ stopPage' = current_page
    /\ UNCHANGED << fixed, companies_info, pc, current_page, pages_scraped, companies_data, ledger,
                    semaphore, to_process, tasks, storage, raised, created,
                    fetched, mainFlushes, ended >>

\* scrape_all_companies up to the loop: _create_session, load_existing_companies
Start ==
    /\ pc = "start"
    /\ existing_companies' = existing_companies \cup LoadExisting(mainFile)
    /\ pc' = "top"
    /\ UNCHANGED << fixed, companies_info, should_stop, current_page, pages_scraped, companies_data,
                    processed_slugs, semaphore, to_process, tasks, storage, raised,
                    history >>

\* a step of the scheduler that only moves on (why: what ended the loop)
Goto(next, why) ==
    /\ pc' = next
    /\ ended' = why
    /\ UNCHANGED << fixed, companies_info, should_stop, current_page, pages_scraped, companies_data,
                    ledger, semaphore, to_process, tasks, storage, raised, created,
                    fetched, mainFlushes, stopPage >>

\* max_pages and pages_scraped >= max_pages
AtCeiling == max_pages # NoCeiling /\ max_pages # 0 /\ pages_scraped >= max_pages

\* mutant: the flag is cleared when the loop has seen it
StopAtTop_ClearsFlag ==
    /\ pc = "top" /\ should_stop
    /\ should_stop' = FALSE
    /\ pc' = "flush"
    /\ ended' = "stop"
    /\ UNCHANGED << fixed, companies_info, current_page, pages_scraped, companies_data,
                    ledger, semaphore, to_process, tasks, storage, raised, created,
                    fetched, mainFlushes, stopPage >>

\* top of the page loop: should_stop is set
StopAtTop == pc = "top" /\ should_stop /\ Goto("flush", "stop")

\* top of the page loop: the page ceiling is reached
CeilingReached == pc = "top" /\ ~should_stop /\ AtCeiling /\ Goto("flush", "ceiling")

\* mutant: the next page is fetched whatever the flag
FetchListing_IgnoresStop == pc = "top" /\ ~AtCeiling /\ Goto("listing", ended)

\* the listing request of get_company_slugs_from_page is sent
FetchListing == pc = "top" /\ ~should_stop /\ ~AtCeiling /\ Goto("listing", ended)

\* an unexpected exception in the loop body, outside every inner try block
\* (building the listing URL; creating the backup directory)
UnexpectedError ==
    /\ env = "faulty"
    /\ \/ pc = "top" /\ ~should_stop /\ ~AtCeiling
       \/ pc = "autosave" /\ pages_scraped % AutoSaveEvery = 0
                          /\ companies_data # << >>
    /\ Goto("except", "error")

\* mutant: slugs already in processed_slugs are not filtered out
ToProcess_NoFilter(info, processed) == info

\* companies_to_process: the slugs not in processed_slugs
ToProcess(info, processed) ==
    SelectSeq(info, LAMBDA s : s \notin processed)

\* mutant: an empty listing result does not end the loop
ListingResponse_NoEmptyCheck ==
    /\ pc = "listing"
    /\ \E ok \in Responses :
         /\ companies_info' = IF ok THEN SlugsOfPage(current_page) ELSE << >>
         /\ IF should_stop
            THEN /\ pc' = "flush" /\ ended' = "stop"
                 /\ UNCHANGED << to_process, tasks >>
            ELSE /\ pc' = "build" /\ ended' = ended
                 /\ to_process' = ToProcess(companies_info', processed_slugs)
                 /\ tasks' = << >>
    /\ UNCHANGED << fixed, should_stop, current_page, pages_scraped, companies_data,
                    ledger, semaphore, storage, raised, created, fetched,
                    mainFlushes, stopPage >>

\* The listing request resolved (ok: with a body; otherwise every attempt
\* failed), and what follows up to the creation of the first task.
ListingResponse ==
    /\ pc = "listing"
    /\ \E ok \in Responses :
         /\ companies_info' = IF ok THEN SlugsOfPage(current_page) ELSE << >>
         /\ IF companies_info' = << >>
            THEN /\ pc' = "flush" /\ ended' = "empty"
                 /\ UNCHANGED << to_process, tasks >>
            ELSE IF should_stop
            THEN /\ pc' = "flush" /\ ended' = "stop"
                 /\ UNCHANGED << to_process, tasks >>
            ELSE /\ pc' = "build" /\ ended' = ended
                 /\ to_process' = ToProcess(companies_info', processed_slugs)
                 /\ tasks' = << >>
    /\ UNCHANGED << fixed, should_stop, current_page, pages_scraped, companies_data,
                    ledger, semaphore, storage, raised, created, fetched,
                    mainFlushes, stopPage >>

Count(f, s) == IF s \in DOMAIN f THEN f[s] ELSE 0

Incr(f, s) == [x \in DOMAIN f \cup { s } |-> IF x = s THEN Count(f, s) + 1 ELSE f[x]]

\* mutant: processed_slugs is started afresh for every batch
BuildTask_PerBatch ==
    /\ pc = "build"
    /\ IF should_stop \/ Len(tasks) = Len(to_process)
       THEN /\ pc' = "gather"
            /\ UNCHANGED << processed_slugs, tasks, created >>
       ELSE LET slug == to_process[Len(tasks) + 1]
            IN  /\ processed_slugs' =
                     (IF tasks = << >> THEN {} ELSE processed_slugs) \cup { slug }
                /\ tasks' = Append(tasks, Task(slug))
                /\ created' = Incr(created, slug)
                /\ pc' = pc
    /\ UNCHANGED << fixed, companies_info, should_stop, current_page, pages_scraped, companies_data,
                    existing_companies, semaphore, to_process, storage, raised,
                    fetched, mainFlushes, stopPage, ended >>

\* process_companies_batch: one iteration of the loop that creates the tasks
BuildTask ==
    /\ pc = "build"
    /\ IF should_stop \/ Len(tasks) = Len(to_process)
       THEN /\ pc' = "gather"
            /\ UNCHANGED << processed_slugs, tasks, created >>
       ELSE LET slug == to_process[Len(tasks) + 1]
            IN  /\ processed_slugs' = processed_slugs \cup { slug }
                /\ tasks' = Append(tasks, Task(slug))
                /\ created' = Incr(created, slug)
                /\ pc' = pc
    /\ UNCHANGED << fixed, companies_info, should_stop, current_page, pages_scraped, companies_data,
                    existing_companies, semaphore, to_process, storage, raised,
                    fetched, mainFlushes, stopPage, ended >>

SetTask(t, phase, attempt, data) ==
    tasks' = [tasks EXCEPT ![t] = [slug |-> tasks[t].slug, phase |-> phase,
                                   attempt |-> attempt, data |-> data]]

\* mutant: the section is entered whatever the semaphore's value
CanAcquire_Unbounded == TRUE

\* asyncio.Semaphore.acquire without suspending: only while the value is positive
CanAcquire == semaphore > 0

\* Inside "async with self.semaphore", up to the first suspension: the detail
\* URL is built and the request sent; if building the URL raises (it is
\* outside the try block) the exception leaves the task, the semaphore is
\* released at once, and gather returns the exception as the task's result.
EnterSection(t) ==
    \E built \in Responses :
       IF built
       THEN SetTask(t, "get", 0, NoData) /\ semaphore' = semaphore - 1
       ELSE SetTask(t, "exc", 0, NoData) /\ UNCHANGED semaphore

\* get_company_details up to its first suspension: the should_stop check,
\* then "async with self.semaphore"
TaskStart(t) ==
    /\ pc = "gather"
    /\ tasks[t].phase = "created"
    /\ IF should_stop
       THEN SetTask(t, "none", 0, NoData) /\ UNCHANGED semaphore
       ELSE IF CanAcquire
            THEN EnterSection(t)
            ELSE SetTask(t, "waiting", 0, NoData) /\ UNCHANGED semaphore
    /\ UNCHANGED << fixed, companies_info, pc, should_stop, current_page, pages_scraped,
                    companies_data, ledger, to_process, storage, raised, history >>

\* a task suspended in acquire() is woken by a release
TaskAcquire(t) ==
    /\ pc = "gather"
    /\ tasks[t].phase = "waiting"
    /\ CanAcquire
    /\ EnterSection(t)
    /\ UNCHANGED << fixed, companies_info, pc, should_stop, current_page, pages_scraped,
                    companies_data, ledger, to_process, storage, raised, history >>

\* What get_company_details returns for a response that arrived:
\* None for a name already in existing_companies, else company_data
DetailResult(slug, p, existing) ==
    IF Name(slug) # << >> /\ IsAlreadyScraped(Name(slug), existing)
    THEN [phase |-> "none", data |-> NoData]
    ELSE [phase |-> "dict", data |-> CompanyData(slug, p)]

\* one HTTP attempt of the task's make_request_with_retry resolves; after a
\* failed attempt the task sleeps and retries, still holding the semaphore,
\* and after max_retries failures it returns None
TaskAttempt(t) ==
    /\ pc = "gather"
    /\ tasks[t].phase = "get"
    /\ fetched' = fetched \cup { << tasks[t].slug, current_page >> }
    /\ \E ok \in Responses :
         IF ok
         THEN LET r == DetailResult(tasks[t].slug, current_page, existing_companies)
              IN  /\ SetTask(t, r.phase, tasks[t].attempt, r.data)
                  /\ semaphore' = semaphore + 1
         ELSE IF tasks[t].attempt + 1 < max_retries
              THEN /\ SetTask(t, "get", tasks[t].attempt + 1, NoData)
                   /\ UNCHANGED semaphore
              ELSE /\ SetTask(t, "none", tasks[t].attempt, NoData)
                   /\ semaphore' = semaphore + 1
    /\ UNCHANGED << fixed, companies_info, pc, should_stop, current_page, pages_scraped,
                    companies_data, ledger, to_process, storage, raised, created,
                    mainFlushes, stopPage, ended >>

\* mutant: the batch is merged as soon as one task has resolved
AllResolved_First == tasks = << >> \/ \E t \in 1..Len(tasks) : Resolved(t)

\* await asyncio.gather(*tasks, return_exceptions=True) returns
AllResolved == \A t \in 1..Len(tasks) : Resolved(t)

\* mutant: the merge loop stops at the first result that is not a record
Successful_UntilFailure(ts) ==
    LET bad   == { i \in 1..Len(ts) : ts[i].phase # "dict" }
        upto  == IF bad = {} THEN Len(ts)
                 ELSE (CHOOSE i \in bad : \A j \in bad : i <= j) - 1
    IN  [i \in 1..upto |-> ts[i].data]

\* mutant: the results are taken last task first
Successful_Reversed(ts) ==
    LET ok == SelectSeq(ts, LAMBDA x : x.phase = "dict")
    IN  [i \in 1..Len(ok) |-> ok[Len(ok) + 1 - i].data]

\* successful_companies: the dict results in task order
Successful(ts) ==
    LET ok == SelectSeq(ts, LAMBDA x : x.phase = "dict")
    IN  [i \in 1..Len(ok) |-> ok[i].data]

RECURSIVE AddAll(_, _)
AddAll(data, existing) ==
    IF data = << >> THEN existing
    ELSE AddAll(Tail(data), AddToExisting(Head(data).company_name, existing))

\* mutant: the results of the batch are put in front of collected
Merge_Prepend ==
    /\ pc = "gather"
    /\ AllResolved
    /\ existing_companies' = AddAll(Successful(tasks), existing_companies)
    /\ companies_data' = Successful(tasks) \o companies_data
    /\ tasks' = << >>
    /\ to_process' = << >>
    /\ pc' = "autosave"
    /\ UNCHANGED << fixed, companies_info, should_stop, current_page, pages_scraped,
                    processed_slugs, semaphore, storage, raised, history >>

\* mutant: the loop goes on with the results that have arrived, the other
\* tasks keep their requests
Merge_NoWait ==
    /\ pc = "gather"
    /\ tasks # << >>
    /\ existing_companies' = AddAll(Successful(tasks), existing_companies)
    /\ companies_data' = companies_data \o Successful(tasks)
    /\ tasks' = SelectSeq(tasks, LAMBDA x : x.phase \notin { "none", "exc", "dict" })
    /\ to_process' = << >>
    /\ pc' = "autosave"
    /\ UNCHANGED << fixed, companies_info, should_stop, current_page, pages_scraped,
                    processed_slugs, semaphore, storage, raised, history >>

\* mutant: the results of the batch replace collected
Merge_Assign ==
    /\ pc = "gather"
    /\ AllResolved
    /\ existing_companies' = AddAll(Successful(tasks), existing_companies)
    /\ companies_data' = Successful(tasks)
    /\ tasks' = << >>
    /\ to_process' = << >>
    /\ pc' = "autosave"
    /\ UNCHANGED << fixed, companies_info, should_stop, current_page, pages_scraped,
                    processed_slugs, semaphore, storage, raised, history >>

\* mutant: the results are merged while other tasks of the batch still run
Merge_WhileRunning ==
    /\ pc = "gather"
    /\ tasks # << >>
    /\ Resolved(1)
    /\ existing_companies' = AddAll(Successful(tasks), existing_companies)
    /\ companies_data' = companies_data \o Successful(tasks)
    /\ tasks' = SelectSeq(tasks, LAMBDA x : x.phase \notin { "none", "exc", "dict" })
    /\ to_process' = IF tasks' = << >> THEN << >> ELSE to_process
    /\ pc' = IF tasks' = << >> THEN "autosave" ELSE pc
    /\ UNCHANGED << fixed, companies_info, should_stop, current_page, pages_scraped,
                    processed_slugs, semaphore, storage, raised, history >>

\* gather returned: the merge loop of process_companies_batch and
\* companies_data.extend(batch_results)
Merge ==
    /\ pc = "gather"
    /\ AllResolved
    /\ existing_companies' = AddAll(Successful(tasks), existing_companies)
    /\ companies_data' = companies_data \o Successful(tasks)
    /\ tasks' = << >>
    /\ to_process' = << >>
    /\ pc' = "autosave"
    /\ UNCHANGED << fixed, companies_info, should_stop, current_page, pages_scraped,
                    processed_slugs, semaphore, storage, raised, history >>

BackupAt(ts) == IF ts \in DOMAIN backups THEN backups[ts] ELSE NoFile

\* auto_save_progress: save_to_csv to dsei_companies_backup_<timestamp>.csv;
\* the timestamp has a resolution of one second
WriteBackup ==
    \E adv \in 0..1 :
       /\ clock' = clock + adv
       /\ backups' = [t \in DOMAIN backups \cup { clock + adv } |->
                        IF t = clock + adv
                        THEN SaveToCsv(BackupAt(clock + adv), companies_data)
                        ELSE backups[t]]

\* the auto-save decision after a page, then the has_next_page request is sent
AutoSave ==
    /\ pc = "autosave"
    /\ IF pages_scraped % AutoSaveEvery = 0 /\ companies_data # << >>
       THEN WriteBackup
       ELSE UNCHANGED << backups, clock >>
    /\ pc' = "probe"
    /\ UNCHANGED << fixed, companies_info, should_stop, current_page, pages_scraped, companies_data,
                    ledger, semaphore, to_process, tasks, mainFile, raised, history >>

\* has_next_page resolved; a next page advances the loop, after the sleep
\* of between_pages seconds
ProbeResponse ==
    /\ pc = "probe"
    /\ \E ok \in Responses :
         IF ok /\ HasLinks(current_page + 1)
         THEN /\ current_page' = current_page + 1
              /\ pages_scraped' = pages_scraped + 1
              /\ clock' = clock + between_pages
              /\ pc' = "top"
              /\ ended' = ended
         ELSE /\ pc' = "flush"
              /\ ended' = "nonext"
              /\ UNCHANGED << current_page, pages_scraped, clock >>
    /\ UNCHANGED << fixed, companies_info, should_stop, companies_data, ledger, semaphore,
                    to_process, tasks, mainFile, backups, raised, created, fetched,
                    mainFlushes, stopPage >>

\* after the loop: save_to_csv(), then the finally block
Flush ==
    /\ pc = "flush"
    /\ mainFile' = SaveToCsv(mainFile, companies_data)
    /\ mainFlushes' = mainFlushes + (IF companies_data # << >> THEN 1 ELSE 0)
    /\ pc' = "done"
    /\ UNCHANGED << fixed, companies_info, should_stop, current_page, pages_scraped, companies_data,
                    ledger, semaphore, to_process, tasks, backups, clock, raised,
                    created, fetched, stopPage, ended >>

\* mutant: the handler only logs
ExceptHandler_NoSave == pc = "except" /\ Goto("done", ended)

\* except Exception: save_to_csv() and auto_save_progress() when there is
\* data; the exception is not raised again
ExceptHandler ==
    /\ pc = "except"
    /\ IF companies_data # << >>
       THEN /\ mainFile' = SaveToCsv(mainFile, companies_data)
            /\ mainFlushes' = mainFlushes + 1
            /\ WriteBackup
       ELSE UNCHANGED << mainFile, mainFlushes, backups, clock >>
    /\ pc' = "done"
    /\ UNCHANGED << fixed, companies_info, should_stop, current_page, pages_scraped, companies_data,
                    ledger, semaphore, to_process, tasks, raised, created, fetched,
                    stopPage, ended >>

NextAsync ==
    \/ SignalHandler
    \/ Start
    \/ StopAtTop
    \/ CeilingReached
    \/ FetchListing
    \/ UnexpectedError
    \/ ListingResponse
    \/ BuildTask
    \/ \E t \in 1..Len(tasks) : TaskStart(t)
    \/ \E t \in 1..Len(tasks) : TaskAcquire(t)
    \/ \E t \in 1..Len(tasks) : TaskAttempt(t)
    \/ Merge
    \/ AutoSave
    \/ ProbeResponse
    \/ Flush
    \/ ExceptHandler

SpecAsync == InitAsync /\ [][NextAsync]_vars

\* the same run when the event loop keeps running what can run: every GET
\* ends (the session has a timeout) and every sleep ends
SpecAsyncLive == InitAsync /\ [][NextAsync]_vars /\ WF_vars(NextAsync)

\* a second scraper instance is constructed and run on the same files
NewRun ==
    /\ shape = "async"
    /\ pc = "done"
    /\ run = 1
    /\ run' = 2
    /\ pc' = "start"
    /\ should_stop' = FALSE
    /\ current_page' = start_page
    /\ pages_scraped' = 0
    /\ companies_data' = << >>
    /\ existing_companies' = {}
    /\ processed_slugs' = {}
    /\ semaphore' = max_concurrent_tasks
    /\ companies_info' = << >>
    /\ to_process' = << >>
    /\ tasks' = << >>
    /\ raised' = FALSE
    /\ created' = [s \in {} |-> 0]
    /\ fetched' = {}
    /\ mainFlushes' = 0
    /\ stopPage' = 0
    /\ ended' = ""
    /\ UNCHANGED << shape, max_concurrent_tasks, max_pages, rq, env, site, has_next, loaded, exit_code,
                    reference, storage >>

NextRerun == NextAsync \/ NewRun

SpecRerun == InitAsync /\ [][NextRerun]_vars

(* --------------------- DSEICompanyScraper: a run ----------------------- *)

\* The company_name column as csv.DictReader(csvfile) returns it
ReadNameSync(row) == row.name

\* load_existing_companies (sequential shape)
LoadExistingSync(file) ==
    IF ~file.exists \/ file.rows = << >>
    THEN {}
    ELSE { LowerStr(Strip(ReadNameSync(file.rows[i]))) :
             i \in { j \in 2..Len(file.rows) :
                       Strip(ReadNameSync(file.rows[j])) # << >> } }

\* get_company_slugs_from_page (sequential shape), for a response that
\* arrived: the slug of every link whose href matches, duplicates kept
SlugsOfPageSync(p) ==
    LET pick == SelectSeq(ListingPage(p), LAMBDA a : a.slug # NoMatch)
    IN  [i \in 1..Len(pick) |-> pick[i].slug]

\* company_data of get_company_details (sequential shape): no slug, no url
CompanyDataSync(slug) ==
    [company_name |-> Name(slug), slug_name |-> "", url |-> << "", 0 >>]

\* What get_company_details (sequential shape) returns for a response
DetailResultSync(slug, existing) ==
    IF Name(slug) # << >> /\ IsAlreadyScraped(Name(slug), existing)
    THEN [phase |-> "none", data |-> NoData]
    ELSE [phase |-> "dict", data |-> CompanyDataSync(slug)]

InitSyncRun ==
    /\ shape = "sync"
    /\ pc = "s_start"
    /\ run = 1
    /\ rq = NoRequest
    /\ max_concurrent_tasks = 1
    /\ max_pages \in { NoCeiling } \cup 0..MaxPagesArg
    /\ should_stop = FALSE
    /\ current_page = start_page
    /\ pages_scraped = 0
    /\ companies_data = << >>
    /\ existing_companies = {}
    /\ processed_slugs = {}
    /\ semaphore = 1
    /\ companies_info = << >>
    /\ to_process = << >>
    /\ tasks = << >>
    /\ raised = FALSE
    /\ created = [s \in {} |-> 0]
    /\ fetched = {}
    /\ mainFlushes = 0
    /\ stopPage = 0
    /\ ended = ""
    /\ InitStorage

InitSync == InitSyncRun /\ InitProcess

\* scrape_all_companies up to the loop: load_existing_companies
SyncStart ==
    /\ pc = "s_start"
    /\ existing_companies' = existing_companies \cup LoadExistingSync(mainFile)
    /\ pc' = "s_top"
    /\ UNCHANGED << fixed, companies_info, should_stop, current_page, pages_scraped, companies_data,
                    processed_slugs, semaphore, to_process, tasks, storage, raised,
                    history >>

\* top of the page loop: the page ceiling is reached
SyncCeilingReached == pc = "s_top" /\ AtCeiling /\ Goto("s_flush", "ceiling")

\* the listing request of get_company_slugs_from_page is sent
SyncFetchListing == pc = "s_top" /\ ~AtCeiling /\ Goto("s_listing", ended)

\* An exception outside every try block (building the listing URL, building
\* a detail URL) leaves scrape_all_companies, which has no handler.
SyncUnexpectedError ==
    /\ env = "faulty"
    /\ \/ pc = "s_top" /\ ~AtCeiling
       \/ /\ pc = "s_detail" /\ Len(tasks) < Len(to_process)
          /\ (IF tasks = << >> THEN TRUE ELSE Resolved(Len(tasks)))
    /\ pc' = "done"
    /\ raised' = TRUE
    /\ ended' = "error"
    /\ UNCHANGED << fixed, companies_info, should_stop, current_page, pages_scraped, companies_data,
                    ledger, semaphore, to_process, tasks, storage, created, fetched,
                    mainFlushes, stopPage >>

\* the listing request resolved
SyncListingResponse ==
    /\ pc = "s_listing"
    /\ \E ok \in Responses :
         /\ companies_info' = IF ok THEN SlugsOfPageSync(current_page) ELSE << >>
         /\ IF companies_info' = << >>
            THEN /\ pc' = "s_flush" /\ ended' = "empty"
                 /\ UNCHANGED << to_process, tasks >>
            ELSE /\ pc' = "s_detail" /\ ended' = ended
                 /\ to_process' = companies_info'
                 /\ tasks' = << >>
    /\ UNCHANGED << fixed, should_stop, current_page, pages_scraped, companies_data,
                    ledger, semaphore, storage, raised, created, fetched,
                    mainFlushes, stopPage >>

\* the loop over company_slugs: the delay, then get_company_details sends
\* the request for the next slug
SyncDetailStart ==
    /\ pc = "s_detail"
    /\ Len(tasks) < Len(to_process)
    /\ IF tasks = << >> THEN TRUE ELSE Resolved(Len(tasks))
    /\ LET slug == to_process[Len(tasks) + 1]
       IN  /\ tasks' = Append(tasks, [slug |-> slug, phase |-> "get",
                                      attempt |-> 0, data |-> NoData])
           /\ created' = Incr(created, slug)
    /\ UNCHANGED << fixed, companies_info, pc, should_stop, current_page, pages_scraped,
                    companies_data, ledger, semaphore, to_process, storage, raised,
                    fetched, mainFlushes, stopPage, ended >>

\* One HTTP attempt of the detail request resolves.  When get_company_details
\* returns a record it is appended and its name added to existing_companies.
SyncDetailAttempt ==
    /\ pc = "s_detail"
    /\ tasks # << >> /\ tasks[Len(tasks)].phase = "get"
    /\ LET t == Len(tasks)
       IN  /\ fetched' = fetched \cup { << tasks[t].slug, current_page >> }
           /\ \E ok \in Responses :
                IF ok
                THEN LET r == DetailResultSync(tasks[t].slug, existing_companies)
                     IN  /\ SetTask(t, r.phase, tasks[t].attempt, r.data)
                         /\ IF r.phase = "dict"
                            THEN /\ companies_data' = Append(companies_data, r.data)
                                 /\ existing_companies' =
                                      AddToExisting(r.data.company_name,
                                                    existing_companies)
                            ELSE UNCHANGED << companies_data, existing_companies >>
                ELSE /\ IF tasks[t].attempt + 1 < max_retries
                        THEN SetTask(t, "get", tasks[t].attempt + 1, NoData)
                        ELSE SetTask(t, "none", tasks[t].attempt, NoData)
                     /\ UNCHANGED << companies_data, existing_companies >>
    /\ UNCHANGED << fixed, companies_info, pc, should_stop, current_page, pages_scraped,
                    processed_slugs, semaphore, to_process, storage, raised,
                    created, mainFlushes, stopPage, ended >>

\* every slug of the page is done: the has_next_page request is sent
SyncProbe ==
    /\ pc = "s_detail"
    /\ Len(tasks) = Len(to_process)
    /\ Resolved(Len(tasks))
    /\ pc' = "s_probe"
    /\ tasks' = << >>
    /\ to_process' = << >>
    /\ UNCHANGED << fixed, companies_info, should_stop, current_page, pages_scraped, companies_data,
                    ledger, semaphore, storage, raised, history >>

\* has_next_page resolved; a next page advances the loop
SyncProbeResponse ==
    /\ pc = "s_probe"
    /\ \E ok \in Responses :
         IF ok /\ HasLinks(current_page + 1)
         THEN /\ current_page' = current_page + 1
              /\ pages_scraped' = pages_scraped + 1
              /\ pc' = "s_top"
              /\ ended' = ended
         ELSE /\ pc' = "s_flush"
              /\ ended' = "nonext"
              /\ UNCHANGED << current_page, pages_scraped >>
    /\ UNCHANGED << fixed, companies_info, should_stop, companies_data, ledger, semaphore,
                    to_process, tasks, storage, raised, created, fetched,
                    mainFlushes, stopPage >>

\* after the loop: save_to_csv()
SyncFlush ==
    /\ pc = "s_flush"
    /\ mainFile' = SaveToCsv(mainFile, companies_data)
    /\ mainFlushes' = mainFlushes + (IF companies_data # << >> THEN 1 ELSE 0)
    /\ pc' = "done"
    /\ UNCHANGED << fixed, companies_info, should_stop, current_page, pages_scraped, companies_data,
                    ledger, semaphore, to_process, tasks, backups, clock, raised,
                    created, fetched, stopPage, ended >>

NextSync ==
    \/ SyncStart
    \/ SyncCeilingReached
    \/ SyncFetchListing
    \/ SyncUnexpectedError
    \/ SyncListingResponse
    \/ SyncDetailStart
    \/ SyncDetailAttempt
    \/ SyncProbe
    \/ SyncProbeResponse
    \/ SyncFlush

\* one run of either shape
InitShapes == InitAsync \/ InitSync

NextShapes == NextAsync \/ NextSync

SpecShapes == InitShapes /\ [][NextShapes]_vars

(* --------------------- a run over the long site ------------------------ *)

InitSnapshots ==
    /\ InitAsyncRun
    /\ max_concurrent_tasks = 1
    /\ max_pages \in { NoCeiling, MaxPagesArg }
    /\ mainFile = NoFile
    /\ env = "faulty"
    /\ site = "long"
    /\ has_next = << >>
    /\ loaded = << >>
    /\ exit_code = << >>
    /\ reference = << >>

SpecSnapshots == InitSnapshots /\ [][NextAsync]_vars

(* --------------------- the entry points -------------------------------- *)

\* async_main.main after "await scraper.scrape_all_companies(...)": return 0,
\* or return 1 from the except clauses when an exception arrived
AsyncMainReturn ==
    /\ shape = "async"
    /\ pc = "done"
    /\ exit_code = << >>
    /\ exit_code' = IF raised THEN << 1 >> ELSE << 0 >>
    /\ pc' = "exited"
    /\ UNCHANGED << shape, run, max_concurrent_tasks, max_pages, rq, env, site, has_next, loaded, reference,
                    should_stop, current_page, pages_scraped, companies_data, ledger,
                    companies_info, semaphore, to_process, tasks, storage, raised,
                    history >>

\* main.main after scraper.scrape_all_companies(...): the end of main, or
\* "except Exception: sys.exit(1)" when an exception arrived
SyncMainExit ==
    /\ shape = "sync"
    /\ pc = "done"
    /\ exit_code = << >>
    /\ exit_code' = IF raised THEN << 1 >> ELSE << 0 >>
    /\ pc' = "exited"
    /\ UNCHANGED << shape, run, max_concurrent_tasks, max_pages, rq, env, site, has_next, loaded, reference,
                    should_stop, current_page, pages_scraped, companies_data, ledger,
                    companies_info, semaphore, to_process, tasks, storage, raised,
                    history >>

\* main.main, "except KeyboardInterrupt": SIGINT arrives anywhere in the
\* sequential run; the partial results are saved and the process exits with 1
SyncInterrupt ==
    /\ shape = "sync"
    /\ pc # "exited"
    /\ ~raised
    /\ mainFile' = SaveToCsv(mainFile, companies_data)
    /\ mainFlushes' = mainFlushes + (IF companies_data # << >> THEN 1 ELSE 0)
    /\ ended' = "interrupt"
    /\ exit_code' = << 1 >>
    /\ pc' = "exited"
    /\ UNCHANGED << shape, run, max_concurrent_tasks, max_pages, rq, env, site, has_next, loaded, reference,
                    should_stop, current_page, pages_scraped, companies_data, ledger,
                    companies_info, semaphore, to_process, tasks, backups, clock,
                    raised, created, fetched, stopPage >>

NextMain == NextShapes \/ AsyncMainReturn \/ SyncMainExit \/ SyncInterrupt

\* one process started from async_main.py or from main.py
SpecMain == InitShapes /\ [][NextMain]_vars

(* --------------------- the two shapes on one site ----------------------- *)

\* the company_name column of a list of records
NamesOf(data) == [i \in 1..Len(data) |-> data[i].company_name]

\* a run of either shape, on a site that answers every request or on one
\* that does not
InitEquiv ==
    /\ InitAsyncRun \/ InitSyncRun
    /\ env \in { "sound", "faulty" }
    /\ site = "short"
    /\ has_next = << >>
    /\ loaded = << >>
    /\ exit_code = << >>
    /\ reference = << >>

\* The sequential run is over; it found no earlier output and every request
\* was answered.  Its result is kept, and a concurrent scraper is started on
\* the same site with a fresh output file.
ConcurrentRunOfSame ==
    /\ shape = "sync"
    /\ pc = "done"
    /\ env = "sound"
    /\ reference = << >>
    /\ mainFile = SaveToCsv(NoFile, companies_data)
    /\ reference' = << [collected |-> NamesOf(companies_data),
                        entities  |-> { f[1] : f \in fetched }] >>
    /\ shape' = "async"
    /\ pc' = "start"
    /\ max_concurrent_tasks' \in 1..MaxConcurrent
    /\ semaphore' = max_concurrent_tasks'
    /\ mainFile' = NoFile
    /\ should_stop' = FALSE
    /\ current_page' = start_page
    /\ pages_scraped' = 0
    /\ companies_data' = << >>
    /\ existing_companies' = {}
    /\ processed_slugs' = {}
    /\ companies_info' = << >>
    /\ to_process' = << >>
    /\ tasks' = << >>
    /\ raised' = FALSE
    /\ created' = [s \in {} |-> 0]
    /\ fetched' = {}
    /\ mainFlushes' = 0
    /\ stopPage' = 0
    /\ ended' = ""
    /\ UNCHANGED << run, max_pages, rq, env, site, has_next, loaded, exit_code, backups, clock >>

NextEquiv == NextShapes \/ ConcurrentRunOfSame

SpecEquiv == InitEquiv /\ [][NextEquiv]_vars

(* --------------------- make_request_with_retry ------------------------ *)

\* how one GET can end
Outcomes == { "ok", "throttle", "http_error", "timeout", "conn_error" }

\* mutant: the schedule does not escalate
protection_timeouts_Flat == << 30, 30, 30 >>

\* protection_timeouts
protection_timeouts == << 30, 60, 90 >>

\* The exception one GET ends with inside the try block ("" for none).
\* The concurrent shape tests the status for 405/429 before
\* raise_for_status(); the sequential shape only calls raise_for_status().
ExceptionOf(sh, outcome) ==
    IF sh = "async"
    THEN CASE outcome = "ok"         -> ""
           [] outcome = "throttle"   -> ""
           [] outcome = "http_error" -> "ClientResponseError"
           [] outcome = "timeout"    -> "TimeoutError"
           [] OTHER                  -> "ClientConnectionError"
    ELSE CASE outcome = "ok"         -> ""
           [] outcome = "throttle"   -> "HTTPError"
           [] outcome = "http_error" -> "HTTPError"
           [] outcome = "timeout"    -> "Timeout"
           [] OTHER                  -> "ConnectionError"

\* the exceptions the except clauses of the loop catch
Handled(sh) ==
    IF sh = "async"
    THEN { "ClientResponseError", "ClientConnectionError", "TimeoutError" }
    ELSE { "HTTPError", "Timeout", "ConnectionError" }

\* mutant: the wait between attempts does not grow
WaitAfter_Constant(sh, outcome, attempt) ==
    IF sh = "async" /\ outcome = "throttle"
    THEN protection_timeouts[(IF attempt < Len(protection_timeouts) - 1
                              THEN attempt
                              ELSE Len(protection_timeouts) - 1) + 1]
    ELSE IF attempt < max_retries - 1 THEN 1 ELSE 0

\* The wait after a failed attempt, 0 for none.  A throttling status in the
\* concurrent shape always waits, also after the last attempt.
WaitAfter(sh, outcome, attempt) ==
    IF sh = "async" /\ outcome = "throttle"
    THEN protection_timeouts[(IF attempt < Len(protection_timeouts) - 1
                              THEN attempt
                              ELSE Len(protection_timeouts) - 1) + 1]
    ELSE IF attempt < max_retries - 1 THEN 2 ^ attempt ELSE 0

InitRetry ==
    /\ InitProcess
    /\ shape \in { "async", "sync" }
    /\ pc = "retry"
    /\ run = 1
    /\ rq = [NoRequest EXCEPT !.pc = "get"]
    /\ max_concurrent_tasks = 1
    /\ max_pages = NoCeiling
    /\ should_stop = FALSE
    /\ current_page = start_page
    /\ pages_scraped = 0
    /\ companies_data = << >>
    /\ existing_companies = {}
    /\ processed_slugs = {}
    /\ companies_info = << >>
    /\ semaphore = 1
    /\ to_process = << >>
    /\ tasks = << >>
    /\ raised = FALSE
    /\ created = [s \in {} |-> 0]
    /\ fetched = {}
    /\ mainFlushes = 0
    /\ stopPage = 0
    /\ ended = ""
    /\ mainFile = NoFile
    /\ backups = [t \in {} |-> NoFile]
    /\ clock = 0

\* one iteration of "for attempt in range(self.max_retries)": the GET and
\* what the body does with its outcome
RequestAttempt ==
    /\ pc = "retry"
    /\ rq.pc = "get"
    /\ \E outcome \in Outcomes :
         LET e    == ExceptionOf(shape, outcome)
             w    == WaitAfter(shape, outcome, rq.attempt)
             sent == [rq EXCEPT !.gets = @ + 1, !.outcomes = Append(@, outcome)]
         IN  IF outcome = "ok"
             THEN /\ rq' = [sent EXCEPT !.pc = "returned", !.result = "content"]
                  /\ raised' = raised
             ELSE IF e # "" /\ e \notin Handled(shape)
             THEN /\ rq' = [sent EXCEPT !.pc = "returned", !.result = "raise"]
                  /\ raised' = TRUE
             ELSE IF w > 0
             THEN /\ rq' = [sent EXCEPT !.pc = "sleep", !.waits = Append(@, w)]
                  /\ raised' = raised
             ELSE IF rq.attempt + 1 < max_retries
             THEN /\ rq' = [sent EXCEPT !.attempt = @ + 1]
                  /\ raised' = raised
             ELSE /\ rq' = [sent EXCEPT !.pc = "returned", !.result = "None"]
                  /\ raised' = raised
    /\ UNCHANGED << shape, pc, run, max_concurrent_tasks, max_pages, env, site, has_next, loaded, exit_code,
                    reference, should_stop,
                    current_page, pages_scraped, companies_data, ledger,
                    companies_info, semaphore, to_process, tasks, storage, history >>

\* the sleep is over: the next iteration, or "return None" after the loop
RequestWake ==
    /\ pc = "retry"
    /\ rq.pc = "sleep"
    /\ rq' = IF rq.attempt + 1 < max_retries
             THEN [rq EXCEPT !.pc = "get", !.attempt = @ + 1]
             ELSE [rq EXCEPT !.pc = "returned", !.result = "None"]
    /\ UNCHANGED << shape, pc, run, max_concurrent_tasks, max_pages, env, site, has_next, loaded, exit_code,
                    reference, should_stop,
                    current_page, pages_scraped, companies_data, ledger,
                    companies_info, semaphore, to_process, tasks, storage, raised,
                    history >>

NextRetry == RequestAttempt \/ RequestWake

\* every GET ends (the session has a timeout) and every sleep ends
SpecRetry == InitRetry /\ [][NextRetry]_vars /\ WF_vars(NextRetry)

(* --------------------- save_to_csv on one destination ------------------ *)

\* a scraper object that is not crawling
InitIdle ==
    /\ InitProcess
    /\ run = 1
    /\ max_concurrent_tasks = 1
    /\ max_pages = NoCeiling
    /\ should_stop = FALSE
    /\ current_page = start_page
    /\ pages_scraped = 0
    /\ existing_companies = {}
    /\ processed_slugs = {}
    /\ companies_info = << >>
    /\ semaphore = 1
    /\ to_process = << >>
    /\ tasks = << >>
    /\ raised = FALSE
    /\ created = [s \in {} |-> 0]
    /\ fetched = {}
    /\ stopPage = 0
    /\ backups = [t \in {} |-> NoFile]
    /\ clock = 0

\* the destinations save_to_csv can find: no file, an empty file, a file
\* written by an earlier call
SinkFiles == OldFiles \cup { [exists |-> TRUE, rows |-> << >>] }

\* the lists of records held in companies_data when save_to_csv is called
SinkData ==
    { << >>,
      << CompanyData("a", 1) >>,
      << CompanyData("c", 2), CompanyData("d", 2) >> }

\* what a complete call writes after opening the file
Written(file, data) ==
    (IF FileExists(file) THEN << >> ELSE << HeaderRow >>) \o RowsOf(data)

\* The content of file_path after a call of save_to_csv in which an
\* exception was raised inside the try block: before the file was opened
\* (k = 0 and the file is as it was), or after k rows had reached the file.
FailedSave(file, data, opened, k) ==
    IF ~opened
    THEN file
    ELSE [exists |-> TRUE,
          rows |-> (IF OpenMode(file) = "a" THEN file.rows ELSE << >>)
                      \o SubSeq(Written(file, data), 1, k)]

InitSink ==
    /\ InitIdle
    /\ shape \in { "async", "sync" }
    /\ pc = "sink"
    /\ rq = NoRequest
    /\ companies_data = << >>
    /\ mainFile \in SinkFiles
    /\ mainFlushes = 0
    /\ ended = ""

\* One call of save_to_csv(filename).  "except Exception" logs the error;
\* the call returns None whether the rows were written or not.
SinkFlush ==
    /\ pc = "sink"
    /\ mainFlushes < MaxFlushes
    /\ \E data \in SinkData :
         /\ companies_data' = data
         /\ IF data = << >>
            THEN /\ mainFile' = SaveToCsv(mainFile, data)
                 /\ ended' = "nodata"
            ELSE \/ /\ mainFile' = SaveToCsv(mainFile, data)
                    /\ ended' = "written"
                 \/ /\ \E opened \in BOOLEAN :
                         \E k \in 0..(Len(Written(mainFile, data)) - 1) :
                            /\ opened \/ k = 0
                            /\ mainFile' = FailedSave(mainFile, data, opened, k)
                    /\ ended' = "failed"
    /\ raised' = FALSE
    /\ mainFlushes' = mainFlushes + 1
    /\ UNCHANGED << fixed, pc, should_stop, current_page, pages_scraped, ledger,
                    companies_info, semaphore, to_process, tasks, backups, clock,
                    created, fetched, stopPage >>

NextSink == SinkFlush

SpecSink == InitSink /\ [][NextSink]_vars

(* --------------------- load_existing_companies on a file ---------------- *)

\* the company_name column of the rows of the files that are loaded
LoadNames == { << "A", "b" >>, << "a", "B" >>, << " ", "c" >>, << " " >>, << >> }

\* the files load_existing_companies can find: none, an empty one, and a
\* header followed by up to MaxRows rows
LoadFiles ==
    { NoFile, [exists |-> TRUE, rows |-> << >>] } \cup
    { [exists |-> TRUE,
       rows |-> << HeaderRow >> \o
                [i \in 1..Len(names) |->
                   [hdr |-> FALSE, name |-> names[i], slug |-> "z", page |-> 1]]] :
        names \in UNION { [1..k -> LoadNames] : k \in 0..MaxRows } }

\* mutant: the rows that were read are counted
LoadedCount_Rows(file, existing) ==
    IF file.rows = << >> THEN 0 ELSE Len(file.rows) - 1

\* count = len(self.existing_companies)
LoadedCount(file, existing) == Cardinality(existing)

InitLoad ==
    /\ InitIdle
    /\ shape \in { "async", "sync" }
    /\ pc = "load"
    /\ rq = NoRequest
    /\ companies_data = << >>
    /\ mainFile \in LoadFiles
    /\ mainFlushes = 0
    /\ ended = ""

\* One call of load_existing_companies().  Without a file it returns 0 at
\* once; when opening or reading the file raises, "except Exception" logs
\* the error and the call returns 0.
LoadExistingCompanies ==
    /\ pc = "load"
    /\ \E opened \in Responses :
         IF ~mainFile.exists \/ ~opened
         THEN /\ loaded' = << 0 >>
              /\ UNCHANGED existing_companies
         ELSE /\ existing_companies' =
                   existing_companies \cup
                   (IF shape = "async" THEN LoadExisting(mainFile)
                                       ELSE LoadExistingSync(mainFile))
              /\ loaded' = << LoadedCount(mainFile, existing_companies') >>
    /\ pc' = "loaded"
    /\ UNCHANGED << shape, run, max_concurrent_tasks, max_pages, rq, env, site,
                    has_next, exit_code, reference, should_stop, current_page,
                    pages_scraped, companies_data, companies_info, processed_slugs,
                    semaphore, to_process, tasks, storage, raised, history >>

NextLoad == LoadExistingCompanies

SpecLoad == InitLoad /\ [][NextLoad]_vars

(* --------------------- get_company_slugs_from_page on a fragment ------- *)

\* the href values of a.js-librarylink-entry links: two identifiers, or no
\* 'exhibitors-list/<slug>' in the href
Hrefs == { "x", "y", NoMatch }

\* sequences over a set, up to a length
SeqsUpTo(S, n) == UNION { [1..k -> S] : k \in 0..n }

\* An element of a listing fragment: its a.js-librarylink-entry links in
\* document order, and whether the element is an
\* li.m-exhibitors-list__items__item container.
Elements == [li : BOOLEAN, anchors : SeqsUpTo(Hrefs, MaxAnchors)]

Fragments == SeqsUpTo(Elements, MaxContainers)

\* container.find('a', class_='js-librarylink-entry'): the first such link
\* of the container, NoMatch when there is none or its href has no slug
ContainerLink(c) == IF c.anchors = << >> THEN NoMatch ELSE c.anchors[1]

\* get_company_slugs_from_page for a response body: one slug for each
\* container whose link matches, then the repeats removed
CompaniesInfo(fragment) ==
    LET pick == SelectSeq(fragment, LAMBDA c : c.li /\ ContainerLink(c) # NoMatch)
    IN  UniqueSlugs([i \in 1..Len(pick) |-> ContainerLink(pick[i])])

InitListing ==
    /\ InitIdle
    /\ shape = "async"
    /\ pc = "parse"
    /\ rq \in { [NoRequest EXCEPT !.pc = "returned", !.gets = 1,
                                  !.outcomes = << "ok" >>, !.result = fr] :
                  fr \in Fragments }
    /\ companies_data = << >>
    /\ mainFile = NoFile
    /\ mainFlushes = 0
    /\ ended = ""

\* the body of get_company_slugs_from_page after the response arrived
ParseListing ==
    /\ pc = "parse"
    /\ companies_info' = CompaniesInfo(rq.result)
    /\ pc' = "parsed"
    /\ UNCHANGED << fixed, should_stop, current_page, pages_scraped, companies_data,
                    ledger, semaphore, to_process, tasks, storage, raised, history >>

\* mutant: only the links inside the li containers are counted
HasNextPage_InContainers(fragment) ==
    \E i \in 1..Len(fragment) : fragment[i].li /\ fragment[i].anchors # << >>

\* has_next_page for a response body: find_all('a', class_='js-librarylink-entry')
\* over the whole document, whatever the element and whatever the href
HasNextPage(fragment) ==
    \E i \in 1..Len(fragment) : fragment[i].anchors # << >>

\* the body of has_next_page after the same response arrived
ProbeListing ==
    /\ pc = "parsed"
    /\ has_next' = << HasNextPage(rq.result) >>
    /\ pc' = "probed"
    /\ UNCHANGED << shape, run, max_concurrent_tasks, max_pages, rq, env, site, loaded, exit_code,
                    reference, should_stop, current_page, pages_scraped,
                    companies_data, companies_info, ledger, semaphore, to_process,
                    tasks, storage, raised, history >>

NextListing == ParseListing \/ ProbeListing

SpecListing == InitListing /\ [][NextListing]_vars

(* --------------------- get_company_details on a detail page ------------ *)

TagChars == { "a", " ", "\n" }
OverviewChars == { "a", " ", "\n", "\r" }

\* A detail page: the text of each element the category selector matches, in
\* document order, and the text of the first element the description
\* selector matches (<< >>: no such element, else << text >>).
DetailPages ==
    [categories  : SeqsUpTo(SeqsUpTo(TagChars, MaxTag), MaxCategories),
     description : { << >> } \cup { << t >> : t \in SeqsUpTo(OverviewChars, MaxOverview) }]

\* mutant: the text is taken as it stands in the page
GetText_Raw(text) == text

\* element.get_text(strip=True) of an element with one text node
GetText(text) == Strip(text)

\* the loop over category_elements: tags.append(tag) if tag
RECURSIVE Tags(_)
Tags(elements) ==
    IF elements = << >> THEN << >>
    ELSE LET tag == GetText(Head(elements))
         IN  (IF tag # << >> THEN << tag >> ELSE << >>) \o Tags(Tail(elements))

\* '; '.join(tags)
RECURSIVE Join(_)
Join(tags) ==
    IF tags = << >> THEN << >>
    ELSE IF Len(tags) = 1 THEN tags[1]
    ELSE tags[1] \o << ";", " " >> \o Join(Tail(tags))

\* overview.replace('\n', ' ').replace('\r', ' ')
CleanLineBreaks(text) ==
    [i \in 1..Len(text) |-> IF text[i] \in { "\n", "\r" } THEN " " ELSE text[i]]

\* overview = description_element.get_text(strip=True), "" without element
Overview(description) ==
    IF description = << >> THEN << >> ELSE GetText(description[1])

\* company_data of get_company_details, with the fields taken from the page
DetailData(slug, p, page) ==
    [company_name |-> Name(slug), slug_name |-> slug, url |-> << slug, p >>,
     tags |-> Join(Tags(page.categories)),
     overview |-> CleanLineBreaks(Overview(page.description))]

InitDetail ==
    /\ InitIdle
    /\ shape \in { "async", "sync" }
    /\ pc = "detail"
    /\ rq \in { [NoRequest EXCEPT !.pc = "returned", !.gets = 1,
                                  !.outcomes = << "ok" >>, !.result = page] :
                  page \in DetailPages }
    /\ companies_data = << >>
    /\ mainFile = NoFile
    /\ mainFlushes = 0
    /\ ended = ""

\* the body of get_company_details after the response arrived; the record
\* it returns is appended to companies_data
ParseDetail ==
    /\ pc = "detail"
    /\ companies_data' = Append(companies_data, DetailData("a", current_page, rq.result))
    /\ pc' = "detailed"
    /\ UNCHANGED << fixed, should_stop, current_page, pages_scraped, companies_info,
                    ledger, semaphore, to_process, tasks, storage, raised, history >>

NextDetail == ParseDetail

SpecDetail == InitDetail /\ [][NextDetail]_vars

(* ======================= claims: the concurrent run ==================== *)

\* C1: for every limit N >= 1, in every reachable state of a run the number
\* of detail tasks inside the semaphore-guarded section (at any attempt of
\* their request) is at most N, on every page of the run.
C1_InFlightAtMostN ==
    max_concurrent_tasks >= 1 => Cardinality(InFlight) <= max_concurrent_tasks

\* C1 witness: N = 1 on the second page, one task retrying inside the
\* section while another one waits for the semaphore.
C1_Witness ==
    /\ max_concurrent_tasks = 1
    /\ current_page = 2
    /\ \E t, u \in 1..Len(tasks) :
          /\ tasks[t].phase = "get" /\ tasks[t].attempt >= 1
          /\ tasks[u].phase = "waiting"

DataRows(file) == { j \in 1..Len(file.rows) : ~file.rows[j].hdr }

\* C2: after the crawl was run twice on the same pages and the same output
\* file, no two rows of the file have names that are equal after
\* lower-casing and trimming.
C2_RerunNoDuplicateRows ==
    (run = 2 /\ pc = "done") =>
        \A i, j \in DataRows(mainFile) :
            i # j => Normalize(mainFile.rows[i].name) # Normalize(mainFile.rows[j].name)

\* C3: whatever ended the page loop, when the run is over the records of
\* collected have been written to the main file exactly once: one write, and
\* each record is one row of the file.
C3_FlushedExactlyOnce ==
    pc = "done" =>
        /\ mainFlushes = (IF companies_data # << >> THEN 1 ELSE 0)
        /\ \A i \in 1..Len(companies_data) :
              Cardinality({ j \in 1..Len(mainFile.rows) :
                              mainFile.rows[j] = RowOf(companies_data[i]) }) = 1

\* C3 witness: the loop was ended by an unexpected exception with two
\* records collected, and the run is over.
C3_Witness ==
    /\ pc = "done"
    /\ ended = "error"
    /\ Len(companies_data) >= 2

\* C4, first part as claimed: a task of a completely created batch never
\* resolves without having sent its request.
C4_CreatedTaskFetches ==
    \A t \in 1..Len(tasks) :
        (/\ pc = "gather" /\ Len(tasks) = Len(to_process)
         /\ tasks[t].phase = "created"
         /\ Len(tasks') = Len(tasks))
        => tasks'[t].phase # "none"

\* C4: a task that has passed the should_stop check (it waits for the
\* semaphore or is fetching) stays in the batch until it has resolved, and
\* resolves to None only after a request of its own.
C4_StartedTaskFetches ==
    (\E t \in 1..Len(tasks) : tasks[t].phase \in { "waiting", "get" }) =>
        /\ pc' = "gather"
        /\ Len(tasks') = Len(tasks)
        /\ \A t \in 1..Len(tasks) :
              /\ tasks'[t].slug = tasks[t].slug
              /\ (tasks[t].phase \in { "waiting", "get" } /\ tasks'[t].phase = "none")
                    => << tasks[t].slug, current_page >> \in fetched'

\* C4: the batch is left only when every task has resolved, and every record
\* a task returned is then in collected.
C4_ResultsMerged ==
    (pc = "gather" /\ pc' # "gather") =>
        /\ \A t \in 1..Len(tasks) : tasks[t].phase \in { "none", "exc", "dict" }
        /\ \A t \in 1..Len(tasks) :
              tasks[t].phase = "dict" =>
                 \E i \in (Len(companies_data) + 1)..Len(companies_data') :
                     companies_data'[i] = tasks[t].data

\* C4: once should_stop is set, no task exists and no detail request is sent
\* for a page after the one the signal arrived on.
C4_NoLaterDispatch ==
    should_stop =>
        /\ \A f \in fetched : f[2] <= stopPage
        /\ tasks # << >> => current_page = stopPage

\* C4 as claimed: after should_stop is set, every created task of the batch
\* still fetches, the results are merged, and no later page is dispatched.
C4_Original ==
    /\ [][C4_CreatedTaskFetches /\ C4_StartedTaskFetches /\ C4_ResultsMerged]_vars
    /\ []C4_NoLaterDispatch

\* C4 amended: the tasks that had already started fetch to completion, the
\* results are merged, and no later page is dispatched; a created task that
\* has not started yet may return None without a request.
C4_Amended ==
    /\ [][C4_StartedTaskFetches /\ C4_ResultsMerged]_vars
    /\ []C4_NoLaterDispatch

\* C4 witness: the signal arrived on page 2 before task c started and after
\* task d had started: c sent no request, d's record is merged.
C4_Witness ==
    /\ should_stop /\ stopPage = 2
    /\ pc = "autosave"
    /\ "c" \in processed_slugs /\ << "c", 2 >> \notin fetched
    /\ \E i \in 1..Len(companies_data) : companies_data[i].slug_name = "d"

\* C7: collected never holds two records with the same non-empty
\* normalized name.
C7_NoDuplicateNames ==
    \A i, j \in 1..Len(companies_data) :
        (i # j /\ companies_data[i].company_name # << >>) =>
            Normalize(companies_data[i].company_name)
                # Normalize(companies_data[j].company_name)

\* C8: at most one detail task is created per identifier in a run, every
\* task's identifier is in processed_slugs, and no task of a batch has
\* started while the batch is still being built.
C8_OneTaskPerSlug ==
    /\ \A s \in DOMAIN created : created[s] <= 1
    /\ \A t \in 1..Len(tasks) : tasks[t].slug \in processed_slugs
    /\ (\E t \in 1..Len(tasks) : tasks[t].phase # "created") => pc = "gather"

\* C8 witness: identifier b, listed on pages 1 and 2, has one task; page 2's
\* batch holds only c and d, and one of them is fetching.
C8_Witness ==
    /\ current_page = 2
    /\ pc = "gather"
    /\ Len(tasks) = 2
    /\ Count(created, "b") = 1
    /\ InFlight # {}

IsPrefix(s, t) == Len(s) <= Len(t) /\ SubSeq(t, 1, Len(s)) = s

\* C10: no step rewrites or truncates a non-empty file: its content before
\* the step is a prefix of its content after it (main file and backups); the
\* main file changes only in the flush, and the run is at its start, where
\* the file is read, only once.
C10_AppendOnly ==
    [][/\ FileExists(mainFile) =>
             mainFile'.exists /\ IsPrefix(mainFile.rows, mainFile'.rows)
       /\ \A ts \in DOMAIN backups :
             FileExists(backups[ts]) =>
                 /\ ts \in DOMAIN backups'
                 /\ IsPrefix(backups[ts].rows, backups'[ts].rows)
       /\ mainFile' # mainFile => pc \in { "flush", "except" }
       /\ (pc # "start" /\ pc' = "start") => run' # run]_vars

\* C10 witness: the second run has appended its records to the file the
\* first run wrote.
C10_Witness ==
    /\ run = 2 /\ pc = "done"
    /\ mainFlushes = 1
    /\ Len(companies_data) >= 1
    /\ Len(mainFile.rows) >= 3 + Len(companies_data)
    /\ Cardinality({ j \in 1..Len(mainFile.rows) : mainFile.rows[j].hdr }) = 1

(* ======================= claims: either shape (SpecShapes) ============== *)

\* C5 (concurrent shape).  When the batch of a page is merged, every task
\* has resolved, exactly the records of the tasks that returned one are
\* appended to companies_data, nothing is raised and the run goes on to the
\* steps after the batch.  A task for an unknown name ends without a record
\* only when its last attempt failed.
C5_AsyncStep ==
    /\ (shape = "async" /\ pc = "gather" /\ pc' # "gather") =>
          LET good == { t \in 1..Len(tasks) : tasks[t].phase = "dict" }
              n    == Len(companies_data)
          IN  /\ pc' = "autosave"
              /\ ~raised'
              /\ \A t \in 1..Len(tasks) : tasks[t].phase \in { "none", "exc", "dict" }
              /\ Len(companies_data') = n + Cardinality(good)
              /\ SubSeq(companies_data', 1, n) = companies_data
              /\ \A t \in good :
                   \E i \in (n + 1)..Len(companies_data') :
                      companies_data'[i] = tasks[t].data
    /\ (shape = "async" /\ pc = "gather" /\ pc' = "gather") =>
          companies_data' = companies_data
    /\ \A t \in 1..Len(tasks) :
          ( /\ shape = "async" /\ pc = "gather" /\ Len(tasks') = Len(tasks)
            /\ tasks[t].phase = "get" /\ tasks'[t].phase = "none"
            /\ ~IsAlreadyScraped(Name(tasks[t].slug), existing_companies) )
          => tasks[t].attempt = max_retries - 1

\* C5 (sequential shape).  A detail call that returns a record appends
\* exactly that record; one that returns nothing appends nothing; in both
\* cases the loop over the page goes on, and it is left for the pagination
\* request only when every slug of the page has been tried.
C5_SyncStep ==
    /\ (shape = "sync" /\ companies_data' # companies_data) =>
          /\ pc = "s_detail" /\ pc' = "s_detail"
          /\ tasks # << >> /\ Len(tasks') = Len(tasks)
          /\ tasks[Len(tasks)].phase = "get"
          /\ tasks'[Len(tasks)].phase = "dict"
          /\ companies_data' = Append(companies_data, tasks'[Len(tasks)].data)
    /\ ( /\ shape = "sync" /\ pc = "s_detail" /\ tasks # << >>
         /\ Len(tasks') = Len(tasks)
         /\ tasks[Len(tasks)].phase = "get" /\ tasks'[Len(tasks)].phase # "get" ) =>
          /\ pc' = "s_detail" /\ ~raised'
          /\ tasks'[Len(tasks)].phase = "dict" => companies_data' # companies_data
          /\ tasks'[Len(tasks)].phase = "none" =>
               ( \/ tasks[Len(tasks)].attempt = max_retries - 1
                 \/ IsAlreadyScraped(Name(tasks[Len(tasks)].slug), existing_companies) )
    /\ (shape = "sync" /\ pc = "s_detail" /\ pc' # "s_detail" /\ ~raised') =>
          /\ pc' = "s_probe"
          /\ Len(tasks) = Len(to_process)
          /\ \A t \in 1..Len(tasks) : tasks[t].phase \in { "none", "dict" }

C6_State ==
    ended = "empty" =>
       /\ pc \in { "flush", "s_flush", "done" }
       /\ ~raised
       /\ companies_info = << >>
       /\ tasks = << >>
       /\ \A f \in fetched : f[2] < current_page

C6_Step ==
    /\ (pc \in { "listing", "s_listing" } /\ pc' # pc) =>
          /\ companies_info' \in
               { << >>, IF shape = "async" THEN SlugsOfPage(current_page)
                                           ELSE SlugsOfPageSync(current_page) }
          /\ IF companies_info' = << >>
             THEN /\ pc' = (IF shape = "async" THEN "flush" ELSE "s_flush")
                  /\ ended' = "empty"
                  /\ ~raised'
             ELSE ended' # "empty"
    /\ ended = "empty" =>
          /\ ended' = "empty"
          /\ pc' \in { pc, "done" }
          /\ fetched' = fetched
          /\ created' = created
          /\ current_page' = current_page

\* C6: when the listing fetch fails or yields no references the run goes to
\* its end without raising, and no detail fetch is made for that page or a
\* later one (both shapes)
C6_EmptyListingEndsRun == [](C6_State) /\ [][C6_Step]_vars

\* the listing of page 4 arrived with a link but no reference; pages 1 to 3
\* were crawled before it
C6_Witness ==
    /\ ended = "empty" /\ pc = "done" /\ current_page = 4
    /\ \E f \in fetched : f[2] = 3

(* ======================= claims: the retry wrapper (SpecRetry) ========== *)

C9_State ==
    /\ rq.gets <= 3
    /\ rq.gets = Len(rq.outcomes)
    /\ ~raised
    /\ rq.result # "raise"
    /\ (rq.pc = "returned" /\ \A i \in 1..Len(rq.outcomes) : rq.outcomes[i] # "ok")
          => rq.result = "None" /\ rq.gets = 3
    /\ rq.result = "content" =>
          rq.pc = "returned" /\ rq.outcomes[Len(rq.outcomes)] = "ok"

\* C9: a call of make_request_with_retry (either shape) makes at most 3 GET
\* attempts and returns; when no attempt succeeded, whatever mix of
\* throttling, HTTP errors, timeouts and connection errors, it returns None
\* and raises nothing
C9_BoundedRetryReturnsNone == [](C9_State) /\ <>(rq.pc = "returned")

\* three attempts of the concurrent shape failed in three different ways,
\* the last with a throttling status, and the call returned None
C9_Witness ==
    /\ shape = "async"
    /\ rq.pc = "returned" /\ rq.result = "None"
    /\ rq.outcomes = << "timeout", "http_error", "throttle" >>
    /\ rq.waits = << 1, 2, 90 >>

\* the failures of a GET that are not a throttling status
Generic == { "http_error", "timeout", "conn_error" }

\* the wait that followed the i-th GET of the call (0: none)
WaitOf(i) == IF i <= Len(rq.waits) THEN rq.waits[i] ELSE 0

\* the i-th GET of the call is over, with what follows it decided
Past(i) == i < Len(rq.outcomes) \/ (i = Len(rq.outcomes) /\ rq.pc # "get")

\* C23: in the concurrent shape a throttling response (429 or 405) on attempt
\* k = 0, 1, 2 is followed by a wait of 30, 60, 90 seconds, which is longer
\* than the wait a non-throttling failure gets on the same attempt (2^k)
C23_ThrottleSchedule ==
    shape = "async" =>
        \A i \in 1..Len(rq.outcomes) :
            (rq.outcomes[i] = "throttle" /\ Past(i)) =>
                /\ WaitOf(i) = 30 * i
                /\ WaitOf(i) > 2 ^ (i - 1)

\* C23 witness: three throttling responses in a row, each followed by its wait
C23_Witness ==
    /\ shape = "async"
    /\ rq.pc = "returned"
    /\ rq.outcomes = << "throttle", "throttle", "throttle" >>
    /\ rq.waits = << 30, 60, 90 >>

\* C24: in the sequential shape a throttling response (429 or 405) is
\* followed by a longer wait than a non-throttling failure on the same attempt
C24_SyncThrottleWaitsLonger ==
    shape = "sync" =>
        \A i \in 1..Len(rq.outcomes) :
            (rq.outcomes[i] = "throttle" /\ Past(i)) => WaitOf(i) > 2 ^ (i - 1)

\* C25: in both shapes a non-throttling failure on attempt k that is followed
\* by another attempt is followed by a wait of 2^k: 1 after the first
\* failure, 2 after the second
C25_ExponentialBackoff ==
    \A i \in 1..Len(rq.outcomes) :
        (rq.outcomes[i] \in Generic /\ i < Len(rq.outcomes)) =>
            /\ WaitOf(i) = 2 ^ (i - 1)
            /\ i = 1 => WaitOf(i) = 1
            /\ i = 2 => WaitOf(i) = 2

\* C25 witness: two failures of the sequential shape, waits of 1 and 2, then
\* the third attempt
C25_Witness ==
    /\ shape = "sync"
    /\ rq.outcomes = << "conn_error", "http_error", "ok" >>
    /\ rq.waits = << 1, 2 >>

(* ======================= claims: the Sink (SpecSink) ==================== *)

Headers(file) == { j \in 1..Len(file.rows) : file.rows[j].hdr }

C11_Step ==
    (ended' = "written" /\ mainFlushes' = mainFlushes + 1) =>
        LET empty == ~mainFile.exists \/ mainFile.rows = << >>
            new   == SubSeq(mainFile'.rows, Len(mainFile.rows) + 1, Len(mainFile'.rows))
        IN  /\ Len(mainFile'.rows) > Len(mainFile.rows)
            /\ SubSeq(mainFile'.rows, 1, Len(mainFile.rows)) = mainFile.rows
            /\ new[1].hdr <=> empty
            /\ \A j \in 2..Len(new) : ~new[j].hdr

\* C11: a call of save_to_csv that writes records writes a header row iff
\* the destination did not exist or was empty, so a destination that holds
\* rows has exactly one header row and it is its first row
C11_OneHeaderFirst ==
    /\ [][C11_Step]_vars
    /\ [](mainFile.rows # << >> => Headers(mainFile) = { 1 })

\* three calls have written records to a destination that first existed
\* empty: the file has its header and five records
C11_Witness ==
    /\ pc = "sink" /\ mainFlushes = 3 /\ ended = "written"
    /\ Len(mainFile.rows) = 6
    /\ Headers(mainFile) = { 1 }

\* C16: when the write inside save_to_csv fails, the caller is told (an
\* exception reaches it), and what the destination held before is still there
C16_WriteFailureSurfaced ==
    /\ [](ended = "failed" => raised)
    /\ [][(ended' = "failed" /\ mainFlushes' = mainFlushes + 1) =>
             /\ Len(mainFile'.rows) >= Len(mainFile.rows)
             /\ SubSeq(mainFile'.rows, 1, Len(mainFile.rows)) = mainFile.rows]_vars

(* ======================= claims: the page ceiling (SpecShapes) ========== *)

\* the listing pages for which a detail request was sent
FetchedPages == { f[2] : f \in fetched }

\* C12: with a page ceiling M >= 0, detail fetches are dispatched for at
\* most M listing pages
C12_CeilingBoundsPages ==
    max_pages # NoCeiling => Cardinality(FetchedPages) <= max_pages

(* ======================= claims: the failure path (SpecAsync) =========== *)

\* every record of collected is a row of the file
HoldsCollected(file) ==
    \A i \in 1..Len(companies_data) :
       \E j \in 1..Len(file.rows) : file.rows[j] = RowOf(companies_data[i])

\* the handler of an unexpected exception has saved collected to the main
\* file and to a backup file
C13_SavedOnError ==
    (pc = "done" /\ ended = "error" /\ companies_data # << >>) =>
        /\ HoldsCollected(mainFile)
        /\ \E ts \in DOMAIN backups : HoldsCollected(backups[ts])

\* C13: after an unexpected exception in the page loop with records
\* collected, collected is saved to the main file and to an extra backup,
\* and the exception then reaches the caller of scrape_all_companies
C13_SavedThenPropagated ==
    /\ C13_SavedOnError
    /\ (pc = "done" /\ ended = "error" /\ companies_data # << >>) => raised

(* ======================= claims: the entry points (SpecMain) ============ *)

\* C14: however the process ends, the records collected have been written to
\* the output file before it exits
C14_PersistedBeforeExit ==
    (exit_code # << >> /\ companies_data # << >>) => HoldsCollected(mainFile)

\* C15: the exit status is 0 only for a clean completion, not after a stop
\* signal, an interrupt or an unexpected exception
C15_ZeroOnlyWhenClean ==
    exit_code = << 0 >> => (~raised /\ ended \notin { "stop", "interrupt", "error" })

(* ======================= claims: the two shapes (SpecEquiv) ============= *)

\* C17: on the same pages, with every request answered and no stop signal,
\* the concurrent run sends detail requests for the same entities as the
\* sequential run and collects the same sequence of records
C17_ShapesAgree ==
    (reference # << >> /\ shape = "async" /\ pc = "done" /\ ~should_stop) =>
        /\ { f[1] : f \in fetched } = reference[1].entities
        /\ NamesOf(companies_data) = reference[1].collected

(* ======================= claims: the ledger and the order =============== *)

\* the names load_existing_companies reads from the rows of a file
NamesReadFrom(file) ==
    { Normalize(ReadNameAsync(file.rows[j])) : j \in DataRows(file) }

\* the normalized names of the rows of a file
NamesWrittenTo(file) ==
    { Normalize(file.rows[j].name) : j \in DataRows(file) }

C19_PageOrder ==
    \A i, j \in 1..Len(companies_data) :
       companies_data[i].url[2] < companies_data[j].url[2] => i < j

\* collected holds records of page 1 and of page 2
C19_Witness ==
    /\ shape = "async"
    /\ \E i, j \in 1..Len(companies_data) :
          companies_data[i].url[2] = 1 /\ companies_data[j].url[2] = 2

(* ======================= claims: the listing parser (SpecListing) ======= *)

\* the identifiers of all matching links of all containers, in document order
RECURSIVE MatchingInContainers(_)
MatchingInContainers(fragment) ==
    IF fragment = << >> THEN << >>
    ELSE (IF Head(fragment).li
          THEN SelectSeq(Head(fragment).anchors, LAMBDA h : h # NoMatch)
          ELSE << >>) \o MatchingInContainers(Tail(fragment))

\* a sequence without the later occurrences of its elements
RECURSIVE FirstSeen(_)
FirstSeen(q) ==
    IF q = << >> THEN << >>
    ELSE LET front == FirstSeen(SubSeq(q, 1, Len(q) - 1))
             last  == q[Len(q)]
         IN  IF \E i \in 1..Len(front) : front[i] = last
             THEN front ELSE Append(front, last)

\* C20: get_company_slugs_from_page returns exactly the identifiers embedded
\* in matching anchors of the containers, each once, in first-seen order
C20_ExactIdentifiers ==
    pc = "parsed" => companies_info = FirstSeen(MatchingInContainers(rq.result))

\* the number of a.js-librarylink-entry links of a fragment, in any element
RECURSIVE LinkCount(_)
LinkCount(fragment) ==
    IF fragment = << >> THEN 0
    ELSE Len(Head(fragment).anchors) + LinkCount(Tail(fragment))

\* C21 as stated: has_next_page returns true exactly when
\* get_company_slugs_from_page on the same response returns a non-empty list
C21_Original ==
    pc = "probed" => (has_next = << TRUE >> <=> companies_info # << >>)

\* C21 amended: has_next_page returns true iff the response holds at least
\* one a.js-librarylink-entry link, in any element and with any href; it is
\* true whenever get_company_slugs_from_page returns a non-empty list for the
\* same response, but not only then
C21_Amended ==
    pc = "probed" =>
        /\ has_next = << LinkCount(rq.result) > 0 >>
        /\ companies_info # << >> => has_next = << TRUE >>

\* C21 witness: the probe answers true for a response from which no
\* identifier is extracted
C21_Witness ==
    pc = "probed" /\ has_next = << TRUE >> /\ companies_info = << >>

(* ======================= claims: the detail parser (SpecDetail) ======== *)

Blank(text) == \A i \in 1..Len(text) : text[i] \in { " ", "\n", "\r" }

\* the category texts that are not blank, without their surrounding white space
NonBlankTexts(categories) ==
    LET kept == SelectSeq(categories, LAMBDA t : ~Blank(t))
    IN  [i \in 1..Len(kept) |-> Strip(kept[i])]

\* position i of tags is inside the k-th text, or in the "; " after it
RECURSIVE JoinedBySemicolon(_, _)
JoinedBySemicolon(joined, texts) ==
    IF texts = << >> THEN joined = << >>
    ELSE LET n == Len(texts[Len(texts)])
             m == Len(joined)
         IN  /\ m >= n
             /\ SubSeq(joined, m - n + 1, m) = texts[Len(texts)]
             /\ IF Len(texts) = 1 THEN m = n
                ELSE /\ m >= n + 2
                     /\ joined[m - n - 1] = ";" /\ joined[m - n] = " "
                     /\ JoinedBySemicolon(SubSeq(joined, 1, m - n - 2),
                                          SubSeq(texts, 1, Len(texts) - 1))

\* C22: the tags field of the record is the non-blank category texts of the
\* detail page in document order joined by "; ", and its overview field
\* holds no newline and no carriage return
C22_TagsAndOverview ==
    pc = "detailed" =>
        LET record == companies_data[Len(companies_data)]
        IN  /\ JoinedBySemicolon(record.tags, NonBlankTexts(rq.result.categories))
            /\ \A i \in 1..Len(record.overview) :
                  record.overview[i] \notin { "\n", "\r" }

\* C22 witness: a blank category between two others was left out, and a
\* line break inside the description became a space
C22_Witness ==
    /\ pc = "detailed"
    /\ Len(rq.result.categories) = 2
    /\ Blank(rq.result.categories[1]) /\ ~Blank(rq.result.categories[2])
    /\ rq.result.description # << >>
    /\ \E i \in 2..(Len(rq.result.description[1]) - 1) :
          rq.result.description[1][i] \in { "\n", "\r" }
    /\ companies_data[1].tags # << >>

(* ======================= claims: the ledgers and the flag ============== *)

\* the detail tasks that have started and have not resolved
Started == { t \in 1..Len(tasks) : tasks[t].phase \in { "waiting", "get" } }

\* C26: processed_slugs and existing_companies are not mutated while a detail
\* fetch is in flight: processed_slugs is written only while the task list is
\* built, before any task of the batch has started, and existing_companies
\* only in the merge step after every task of the batch has resolved (and by
\* load_existing_companies before the first page, when no task exists)
C26_NoMutationInFlight ==
    [][ /\ (processed_slugs' # processed_slugs \/ existing_companies' # existing_companies)
              => (Started = {} /\ Started' = {})
        /\ processed_slugs' # processed_slugs
              => /\ pc = "build"
                 /\ \A t \in 1..Len(tasks') : tasks'[t].phase = "created"
        /\ existing_companies' # existing_companies
              => \/ pc = "start" /\ tasks = << >>
                 \/ pc = "gather" /\ tasks # << >> /\ tasks' = << >>
                                  /\ \A t \in 1..Len(tasks) : Resolved(t) ]_vars

\* C26 witness: on the second page one fetch is retrying and another has
\* resolved with a record, while both sets hold what the first page left
C26_Witness ==
    /\ shape = "async" /\ pc = "gather" /\ current_page = 2
    /\ existing_companies # {} /\ processed_slugs # {}
    /\ \E t, u \in 1..Len(tasks) :
          /\ tasks[t].phase = "get" /\ tasks[t].attempt >= 1
          /\ tasks[u].phase = "dict"
          /\ Normalize(tasks[u].data.company_name) \notin existing_companies

\* C28: processed_slugs only grows during a run: no step removes an
\* identifier from it
C28_InRunOnlyGrows == [][processed_slugs \subseteq processed_slugs']_vars

\* C28 witness: on the second page the set holds the identifiers of the
\* first page and one of the second
C28_Witness ==
    /\ shape = "async" /\ current_page = 2 /\ pc = "build"
    /\ { "a", "b" } \subseteq processed_slugs
    /\ "c" \in processed_slugs

\* C29: companies_data is append-only within a run: a record, once
\* collected, stays at its position and unmodified until the run ends
C29_CollectedAppendOnly ==
    [][ /\ Len(companies_data') >= Len(companies_data)
        /\ \A i \in 1..Len(companies_data) : companies_data'[i] = companies_data[i] ]_vars

\* C29 witness: the run is over; a record of the first page is first, and
\* records of the second page came after it
C29_Witness ==
    /\ pc = "done"
    /\ Len(companies_data) >= 3
    /\ companies_data[1].url[2] = 1
    /\ companies_data[Len(companies_data)].url[2] = 2

\* C30: should_stop, once set by the signal handler, is never set back to
\* false by a step of the run
C30_StopNeverCleared == [][should_stop => should_stop']_vars

\* C30 witness: the flag was set during the first page and is still set
\* when the run is over
C30_Witness ==
    /\ shape = "async" /\ pc = "done"
    /\ should_stop /\ stopPage = 1 /\ ended = "stop"
    /\ companies_data # << >>

(* ======================= claims: the snapshots (SpecSnapshots) ========= *)

\* the record is a row of some backup file
InSnapshot(record) ==
    \E ts \in DOMAIN backups :
       \E j \in 1..Len(backups[ts].rows) : backups[ts].rows[j] = RowOf(record)

\* the listing pages of the records of companies_data that are in no backup
UnsavedPages ==
    { companies_data[i].url[2] :
        i \in { j \in 1..Len(companies_data) : ~InSnapshot(companies_data[j]) } }

\* the step of the page loop that decides on the snapshot and takes it
C27_Step ==
    (pc = "autosave" /\ pc' = "probe") =>
        /\ mainFile' = mainFile
        /\ backups' # backups <=>
              /\ \E k \in 0..SitePages : pages_scraped + 1 = 5 * k + 1
              /\ companies_data # << >>
        /\ backups' # backups =>
              /\ \A ts \in DOMAIN backups : ts \in DOMAIN backups' /\ backups'[ts] = backups[ts]
              /\ \E ts \in DOMAIN backups' \ DOMAIN backups :
                    /\ DOMAIN backups' = DOMAIN backups \cup { ts }
                    /\ backups'[ts].rows = << HeaderRow >> \o RowsOf(companies_data)

\* C27: after the 1st, 6th, 11th, ... processed page, whenever collected is
\* non-empty, a snapshot of collected is written to a new timestamped backup
\* file and never to the main file; at any point of a run the records of
\* collected that are in no snapshot come from at most 5 consecutive pages
C27_SnapshotEveryFivePages ==
    /\ [][C27_Step]_vars
    /\ [](\A p, q \in UnsavedPages : q - p + 1 <= 5)

\* C27 witness: the second snapshot was taken after the 6th page; before it,
\* the records of five pages were in no snapshot
C27_Witness ==
    /\ pc = "probe" /\ pages_scraped = 5
    /\ Cardinality(DOMAIN backups) = 2
    /\ Len(companies_data) = 7
    /\ UnsavedPages = {}

(* ======================= claims: loading the ledger (SpecLoad) ======== *)

\* C31: load_existing_companies on a missing file leaves existing_companies
\* empty, returns 0 and raises nothing; on an existing file it returns the
\* number of distinct normalized names now in existing_companies
C31_LoadCount ==
    pc = "loaded" =>
        /\ ~raised
        /\ ~mainFile.exists => (existing_companies = {} /\ loaded = << 0 >>)
        /\ mainFile.exists =>
              /\ loaded = << Cardinality(existing_companies) >>
              /\ \A n \in existing_companies : Normalize(n) = n /\ n # << >>

\* C31 witness: three rows, two of them with names that differ in case only
\* and one with a blank name, were loaded as one name
C31_Witness ==
    /\ pc = "loaded"
    /\ Len(mainFile.rows) = 4
    /\ \E j \in 2..4 : Strip(mainFile.rows[j].name) = << >>
    /\ loaded = << 1 >>
    /\ existing_companies = { << "a", "b" >> }

(* ======================= claims: requests in flight (SpecAsync) ======== *)

\* the requests of the scheduler itself: the listing request of
\* get_company_slugs_from_page or the request of has_next_page
SchedulerRequests == IF pc \in { "listing", "probe" } THEN 1 ELSE 0

\* C33: a listing fetch or next-page probe is never in flight together with
\* a detail fetch, so the number of HTTP requests in flight is at most max(N, 1)
C33_RequestsInFlight ==
    /\ SchedulerRequests = 1 => InFlight = {}
    /\ SchedulerRequests + Cardinality(InFlight)
          <= (IF max_concurrent_tasks >= 1 THEN max_concurrent_tasks ELSE 1)

\* C33 witness: the probe after the second page is in flight; the two detail
\* fetches of the page ran together before it
C33_Witness ==
    /\ pc = "probe" /\ current_page = 2 /\ max_concurrent_tasks = 2
    /\ tasks = << >>
    /\ \E p, q \in fetched : p # q /\ p[2] = 2 /\ q[2] = 2

\* the place of an identifier in a list of identifiers
PlaceIn(slugs, slug) == CHOOSE i \in 1..Len(slugs) : slugs[i] = slug

\* C34: the records of one listing page stand in collected in the listing's
\* first-seen identifier order, whatever order the detail fetches of the
\* page completed in
C34_ListingOrderWithinPage ==
    \A i, j \in 1..Len(companies_data) :
        (i < j /\ companies_data[i].url[2] = companies_data[j].url[2]) =>
            LET listed == SlugsOfPage(companies_data[i].url[2])
            IN  PlaceIn(listed, companies_data[i].slug_name)
                  < PlaceIn(listed, companies_data[j].slug_name)

\* C34 witness: on the second page the fetch of the identifier listed last
\* completed while the one listed first was still retrying, and both
\* records were collected
C34_Witness ==
    /\ current_page = 2 /\ pc = "gather" /\ Len(tasks) = 2
    /\ tasks[1].phase = "get" /\ tasks[1].attempt >= 1
    /\ tasks[2].phase = "dict"
    /\ \E i, j \in 1..Len(companies_data) :
          i < j /\ companies_data[i].url[2] = 1 /\ companies_data[j].url[2] = 1

\* should_stop is set and the batch of the current page has been merged
StoppedAfterMerge == should_stop /\ pc \in { "autosave", "probe", "top" }

\* C35 as stated: once should_stop is true and the current batch has been
\* merged, neither a listing fetch nor a next-page probe is issued before
\* collected is flushed
C35_Original ==
    [][ (StoppedAfterMerge /\ pc' # pc) => pc' \notin { "listing", "probe" } ]_vars

\* C35 amended: once should_stop is true and the current batch has been
\* merged, no listing fetch and no detail fetch is issued before collected
\* is flushed; the next-page probe of the current page is still issued, once,
\* because has_next_page is called without a test of the flag
C35_Amended ==
    [][ StoppedAfterMerge =>
          /\ pc' # "listing"
          /\ fetched' = fetched
          /\ tasks' = << >>
          /\ (pc' = "probe" /\ pc' # pc) => pc = "autosave"
          /\ pc = "probe" => pc' \in { "probe", "top", "flush" }
          /\ pc = "top" => pc' \in { "top", "flush" } ]_vars

\* C35 witness: the flag was set while the tasks of the second page were
\* created (a task for "c", none for "d"), the batch was merged, and the
\* probe for the next page is in flight
C35_Witness ==
    /\ pc = "probe" /\ should_stop /\ current_page = 2
    /\ "c" \in DOMAIN created /\ "d" \notin DOMAIN created
    /\ companies_data # << >>

\* the listing page whose URL is being requested (0: none): the page of
\* get_company_slugs_from_page, or the page after it for has_next_page
RequestedListingPage ==
    IF pc \in { "listing", "s_listing" } THEN current_page
    ELSE IF pc \in { "probe", "s_probe" } THEN current_page + 1
    ELSE 0

\* C36: with a page ceiling M >= 1 and start page s, no HTTP request is
\* issued for a listing page numbered greater than s + M - 1 (both shapes)
C36_NoRequestBeyondCeiling ==
    max_pages >= 1 => RequestedListingPage <= start_page + max_pages - 1

(* ======================= claims: records without a name (SpecRerun) ==== *)

\* the detail page of the entity has no title
Untitled(slug) == Name(slug) = << >>

\* a detail task of an untitled entity resolves to None only after its last
\* failed attempt or before its first one, never after a response arrived
C37_Task ==
    \A t \in 1..Len(tasks) :
        (/\ Len(tasks') = Len(tasks)
         /\ Untitled(tasks[t].slug)
         /\ tasks[t].phase = "get" /\ tasks'[t].phase # "get") =>
            \/ tasks'[t].phase = "dict" /\ tasks'[t].data.company_name = << >>
            \/ tasks'[t].phase = "none" /\ tasks[t].attempt = max_retries - 1

\* the merge appends the records without a name and adds nothing to
\* existing_companies for them
C37_Merge ==
    (pc = "gather" /\ pc' = "autosave") =>
        /\ \A t \in 1..Len(tasks) :
              (tasks[t].phase = "dict" /\ tasks[t].data.company_name = << >>) =>
                  \E i \in (Len(companies_data) + 1)..Len(companies_data') :
                     companies_data'[i] = tasks[t].data
        /\ (\A t \in 1..Len(tasks) :
               tasks[t].phase = "dict" => tasks[t].data.company_name = << >>)
              => existing_companies' = existing_companies

\* C37: a detail page without a title yields a record with an empty name
\* that is appended to collected and leaves existing_companies unchanged;
\* it is never suppressed by is_company_already_scraped, in this run or in
\* a later run on the same output file
C37_UntitledAlwaysCollected ==
    /\ [](<< >> \notin existing_companies)
    /\ [][C37_Task /\ C37_Merge]_vars

\* C37 witness: the second run has collected the record without a name of
\* entity "e" again, while the file holds its row of the first run
C37_Witness ==
    /\ run = 2
    /\ \E i \in 1..Len(companies_data) :
          companies_data[i].slug_name = "e" /\ companies_data[i].company_name = << >>
    /\ \E j \in 1..Len(mainFile.rows) :
          mainFile.rows[j].slug = "e" /\ mainFile.rows[j].name = << >>
    /\ mainFlushes = 0

(* ======================= claims: the final attempt (SpecRetry) ========= *)

\* C38: make_request_with_retry never waits after its final attempt: a
\* request sleeps only while a further attempt is left
C38_NoWaitAfterFinalAttempt ==
    rq.pc = "sleep" => rq.attempt < max_retries - 1

(* ======================= claims: a flush without records (SpecSink) ==== *)

\* C39: a call of save_to_csv with empty companies_data leaves the
\* destination as it was: it is neither created nor modified
C39_EmptyFlushLeavesStorage ==
    [][(mainFlushes' = mainFlushes + 1 /\ companies_data' = << >>)
          => mainFile' = mainFile]_vars

\* C39 witness: save_to_csv has returned from a call without records and the
\* destination still does not exist
C39_Witness ==
    /\ pc = "sink"
    /\ mainFlushes >= 1
    /\ companies_data = << >>
    /\ ended = "nodata"
    /\ mainFile = NoFile

(* ======================= claims: progress of a batch (SpecAsyncLive) === *)

\* C32: for every limit N >= 0 the constructor accepts, process_companies_batch
\* eventually returns for every batch when every HTTP attempt eventually
\* returns: no detail task waits forever for the semaphore
C32_BatchReturns == (pc = "gather") ~> (pc # "gather")

====
